---- MODULE Spec2Model ----
(***************************************************************************)
(* Booking / availability / payment flow of the Malecom Suits backend.     *)
(*                                                                         *)
(* The relational store is modelled at the level the route handlers use    *)
(* it: every `await pool.execute(sql)` is one step that runs one statement *)
(* on whichever session of the connection pool serves it.  START           *)
(* TRANSACTION opens a transaction on the session that runs it; a later    *)
(* write of the same request either reaches that session (it stays private *)
(* until the transaction ends) or another session (it is committed at      *)
(* once); COMMIT and ROLLBACK either reach the transaction's session or    *)
(* leave the transaction open on it, to be ended by later traffic.         *)
(***************************************************************************)
EXTENDS Integers, Sequences, FiniteSets, TLC

\* ---------------------------------------------------------------- bounds
MaxOps == 2          \* requests accepted by the server in one behaviour
MaxDay == 3          \* calendar days are 0..MaxDay
MaxDatesPerRequest == 1  \* entries of one availability update
MaxNights == 29      \* longest stay handed to the pricing service

\* ------------------------------------------------------- program constants
MaxStayDays == 365   \* bookings.js: nights > 365 is rejected
CancelWindowHours == 24  \* bookings.js: hoursUntilCheckIn < 24
MinutesPerHour == 60
HoursPerDay == 24
IncludedGuests == 2      \* pricing.js: guests covered by the base price
WeeklyNights == 7        \* pricing.js: nights >= 7
WeeklyDiscountRate == 10     \* pricing.js: 0.1, in percent
MonthlyNights == 28      \* pricing.js: nights >= 28
MonthlyDiscountRate == 20    \* pricing.js: 0.2, in percent
EarlyBirdDays == 30      \* pricing.js: daysUntilCheckIn >= 30
EarlyBirdRate == 5       \* pricing.js: 0.05, in percent
LastMinuteDays == 3      \* pricing.js: daysUntilCheckIn <= 3
LastMinuteRate == 15     \* pricing.js: 0.15, in percent
NewPropertyDays == 30    \* pricing.js: days_old <= 30
NewPropertyRate == 10    \* pricing.js: 0.1, in percent
PlatformFeeRate == 3     \* pricing.js: GUEST_SERVICE_FEE_RATE, 0.03, in percent

\* ------------------------------------------------------------ model shape
Reqs == {1, 2}                         \* requests in flight at the same time
Suites == {"s1"}
Days == 0..MaxDay
TimesOfDay == {0, 30}                \* minutes after midnight of a request
MinutesPerDay == HoursPerDay * MinutesPerHour
Roles == {"guest", "owner", "admin", "stranger"}
PaymentMethods == {"stripe"}   \* its outcomes include those of the others

BookingStatusEnum == {"pending", "confirmed", "canceled", "completed"}
PaymentStatusEnum == {"pending", "paid", "refunded", "failed", "disputed"}
TransactionStatusEnum == {"pending", "completed", "failed", "refunded"}

GuestCounts == {2, 5}

VARIABLES
  db,        \* committed store: bookings, booking_payments, suite_availability, suites
  nextBid,   \* AUTO_INCREMENT of bookings
  nextLid,   \* AUTO_INCREMENT of booking_payments
  orphans,   \* transactions left open on a pooled session by ended requests
  req,       \* per request slot: handler, position in it and its locals
  intents,   \* payment intents created at the provider (by booking reference)
  today,     \* current date
  ops        \* requests accepted so far

vars == <<db, nextBid, nextLid, orphans, req, intents, today, ops>>

\* ------------------------------------------------------------------ store
\* A write statement.  Rows are addressed the way the statement's WHERE does.
InsBooking(id, row) == [op |-> "insBooking", id |-> id, row |-> row]
UpdBooking(id, set) == [op |-> "updBooking", id |-> id, set |-> set]
InsLedger(id, row)  == [op |-> "insLedger", id |-> id, row |-> row]
UpdLedgerByGateway(gw, set) == [op |-> "updLedger", gw |-> gw, set |-> set]
UpsertAvail(s, d, a) == [op |-> "upsertAvail", suite |-> s, date |-> d, avail |-> a]
SetActive(s, a) == [op |-> "setActive", suite |-> s, active |-> a]

Override(row, set) ==
  [f \in DOMAIN row |-> IF f \in DOMAIN set THEN set[f] ELSE row[f]]

\* The effect of one write statement on a store.
Apply(store, w) ==
  CASE w.op = "insBooking" ->
         [store EXCEPT !.bookings = (w.id :> w.row) @@ @]
    [] w.op = "updBooking" ->
         IF w.id \in DOMAIN store.bookings
           THEN [store EXCEPT !.bookings[w.id] = Override(@, w.set)]
           ELSE store
    [] w.op = "insLedger" ->
         [store EXCEPT !.ledger = (w.id :> w.row) @@ @]
    [] w.op = "updLedger" ->
         [store EXCEPT !.ledger =
            [l \in DOMAIN @ |-> IF @[l].gateway = w.gw
                                  THEN Override(@[l], w.set) ELSE @[l]]]
    [] w.op = "upsertAvail" ->
         [store EXCEPT !.avail[w.suite][w.date] = w.avail]
    [] w.op = "setActive" ->
         [store EXCEPT !.active[w.suite] = w.active]

RECURSIVE ApplyAll(_, _)
ApplyAll(store, log) ==
  IF log = <<>> THEN store ELSE ApplyAll(Apply(store, Head(log)), Tail(log))

\* pool.execute(<write>) of request r: the stores and transaction logs it can
\* leave, by the session that serves it.
Execute(r, w) ==
  {[db |-> Apply(db, w), log |-> req[r].log]}
    \cup (IF req[r].tx
            THEN {[db |-> db, log |-> Append(req[r].log, w)]}
            ELSE {})

\* pool.execute('COMMIT') of request r: on the transaction's session the log
\* becomes visible; on another session the transaction stays open.
Commit(r) ==
  {[db |-> ApplyAll(db, req[r].log), orphans |-> orphans]}
    \cup (IF req[r].log # <<>>
            THEN {[db |-> db, orphans |-> orphans \cup {req[r].log}]}
            ELSE {})

\* pool.execute('ROLLBACK') of request r.
Rollback(r) ==
  {[db |-> db, orphans |-> orphans]}
    \cup (IF req[r].log # <<>>
            THEN {[db |-> db, orphans |-> orphans \cup {req[r].log}]}
            ELSE {})

\* ------------------------------------------------------------ availability
\* The conflict query with an existing check-out on the candidate's check-in
\* day counted as an overlap.
ConflictCountAdjacent(bookings, s, checkIn, checkOut) ==
  Cardinality({b \in DOMAIN bookings :
     /\ bookings[b].suite = s
     /\ bookings[b].status \in {"confirmed", "pending"}
     /\ \/ (bookings[b].ci <= checkIn /\ bookings[b].co >= checkIn)
        \/ (bookings[b].ci < checkOut /\ bookings[b].co >= checkOut)
        \/ (bookings[b].ci >= checkIn /\ bookings[b].co <= checkOut)})

\* bookings.js, conflict query of POST /.
ConflictCount(bookings, s, checkIn, checkOut) ==
  Cardinality({b \in DOMAIN bookings :
     /\ bookings[b].suite = s
     /\ bookings[b].status \in {"confirmed", "pending"}
     /\ \/ (bookings[b].ci <= checkIn /\ bookings[b].co > checkIn)
        \/ (bookings[b].ci < checkOut /\ bookings[b].co >= checkOut)
        \/ (bookings[b].ci >= checkIn /\ bookings[b].co <= checkOut)})

\* The calendar query with the check-out day included.
BlockedCountInclusive(avail, s, checkIn, checkOut) ==
  Cardinality({d \in DOMAIN avail[s] :
     d >= checkIn /\ d <= checkOut /\ avail[s][d] = "blocked"})

\* bookings.js, calendar query of POST /.
BlockedCount(avail, s, checkIn, checkOut) ==
  Cardinality({d \in DOMAIN avail[s] :
     d >= checkIn /\ d < checkOut /\ avail[s][d] = "blocked"})

\* ---------------------------------------------------------------- requests
Idle == [pc |-> "idle", kind |-> "none", suite |-> "none", ci |-> 0, co |-> 0,
         bid |-> 0, method |-> "none", charge |-> "none", role |-> "none",
         mins |-> 0, snapPay |-> "none", status |-> "none", dates |-> <<>>,
         resp |-> 0, msg |-> "none", tx |-> FALSE, log |-> <<>>]

\* The response has been sent; the slot is released by Finish.
Respond(r, code, msg) ==
  [req EXCEPT ![r].pc = "done", ![r].resp = code, ![r].msg = msg,
              ![r].tx = FALSE, ![r].log = <<>>]

\* The same for a request that is answered in its first step.
Answer(asked, r, code, msg) ==
  [asked EXCEPT ![r].pc = "done", ![r].resp = code, ![r].msg = msg]

NoneDone == \A r \in Reqs : req[r].pc # "done"

At(r, kind, pc) == NoneDone /\ req[r].kind = kind /\ req[r].pc = pc

\* A new request is taken by the lowest free slot.
Accept(r) ==
  /\ NoneDone
  /\ req[r].pc = "idle"
  /\ \A q \in Reqs : q < r => req[q].pc # "idle"
  /\ ops < MaxOps
  /\ ops' = ops + 1

Finish(r) ==
  /\ req[r].pc = "done"
  /\ req' = [req EXCEPT ![r] = Idle]
  /\ UNCHANGED <<db, nextBid, nextLid, orphans, intents, today, ops>>

\* A transaction left open on its session is ended by later traffic on that
\* session: COMMIT or the implicit commit of START TRANSACTION ...
OrphanCommitted(log) ==
  /\ NoneDone
  /\ log \in orphans
  /\ db' = ApplyAll(db, log)
  /\ orphans' = orphans \ {log}
  /\ UNCHANGED <<nextBid, nextLid, req, intents, today, ops>>

\* ... or by ROLLBACK or the end of the connection.
OrphanRolledBack(log) ==
  /\ NoneDone
  /\ log \in orphans
  /\ orphans' = orphans \ {log}
  /\ UNCHANGED <<db, nextBid, nextLid, req, intents, today, ops>>

\* The seeded database (seed.sql), for one listing and with its dates scaled
\* to Days: one confirmed, paid booking with its completed Stripe charge.
SeedBooking == [suite |-> "s1", ci |-> 2, co |-> 3, status |-> "confirmed",
                pay |-> "paid", canceledAt |-> FALSE]
SeedPayment == [booking |-> 1, amount |-> 1, method |-> "stripe", gateway |-> 1,
                status |-> "completed"]

\* suites.capacity and the listing's pricing_rules row, scaled likewise.
SeedRules == [capacity |-> 4, minimum_stay |-> 1, maximum_stay |-> 2]

Init ==
  /\ db = [bookings |-> (1 :> SeedBooking),
           ledger |-> (1 :> SeedPayment),
           avail |-> [s \in Suites |-> [d \in Days |-> "none"]],
           active |-> [s \in Suites |-> TRUE],
           rules |-> [s \in Suites |-> SeedRules]]
  /\ nextBid = 2
  /\ nextLid = 2
  /\ orphans = {}
  /\ req = [r \in Reqs |-> Idle]
  /\ intents = {1}
  /\ today = 0
  /\ ops = 0

\* ------------------------------------------------- POST /  (create booking)
\* payment.js processPayment: what the provider call can return per method.
ChargeOutcomes(m) ==
  CASE m = "stripe" -> {"completed", "pending", "throw"}
    [] m = "paypal" -> {"completed"}
    [] m = "bank_transfer" -> {"pending"}
    [] OTHER -> {"throw"}

\* Validation of the request and the suite lookup (first statement).
CreateBooking(r, s, checkIn, checkOut, guests, m) ==
  /\ Accept(r)
  /\ UNCHANGED <<db, nextBid, nextLid, orphans, intents, today>>
  /\ LET nights == checkOut - checkIn
         started == [req EXCEPT ![r] =
                       [Idle EXCEPT !.pc = "conflicts", !.kind = "create",
                                    !.suite = s, !.ci = checkIn,
                                    !.co = checkOut, !.method = m]]
         asked == [req EXCEPT ![r].kind = "create", ![r].suite = s,
                              ![r].ci = checkIn, ![r].co = checkOut]
     IN IF checkIn < today
          THEN req' = Answer(asked, r, 400, "past")
          ELSE IF checkOut <= checkIn
            THEN req' = Answer(asked, r, 400, "range")
            ELSE IF nights > MaxStayDays
              THEN req' = Answer(asked, r, 400, "365")
              ELSE IF ~db.active[s]
                THEN req' = Answer(asked, r, 404, "suite")
                ELSE IF guests > db.rules[s].capacity
                  THEN req' = Answer(asked, r, 400, "capacity")
                  ELSE IF db.rules[s].minimum_stay # 0
                          /\ nights < db.rules[s].minimum_stay
                    THEN req' = Answer(asked, r, 400, "minimum")
                    ELSE IF db.rules[s].maximum_stay # 0
                            /\ nights > db.rules[s].maximum_stay
                      THEN req' = Answer(asked, r, 400, "maximum")
                      ELSE req' = started

\* The conflict check placed after the INSERT of the booking row.
CreateCheckConflictsAfterInsert(r) ==
  /\ At(r, "create", "conflicts")
  /\ UNCHANGED <<nextBid, nextLid, orphans, intents, today, ops>>
  /\ IF ConflictCount(db.bookings, req[r].suite, req[r].ci, req[r].co) > 0
       THEN /\ db' = Apply(db, InsBooking(nextBid,
                      [suite |-> req[r].suite, ci |-> req[r].ci,
                       co |-> req[r].co, status |-> "pending",
                       pay |-> "pending", canceledAt |-> FALSE]))
            /\ req' = Respond(r, 400, "conflict")
       ELSE /\ db' = db
            /\ req' = [req EXCEPT ![r].pc = "calendar"]

\* "Check for conflicts with existing bookings".
CreateCheckConflicts(r) ==
  /\ At(r, "create", "conflicts")
  /\ UNCHANGED <<db, nextBid, nextLid, orphans, intents, today, ops>>
  /\ IF ConflictCount(db.bookings, req[r].suite, req[r].ci, req[r].co) > 0
       THEN req' = Respond(r, 400, "conflict")
       ELSE req' = [req EXCEPT ![r].pc = "calendar"]

\* "Check suite availability calendar"; a request that passes goes on to
\* calculatePricing and pool.execute('START TRANSACTION').
CreateCheckCalendar(r) ==
  /\ At(r, "create", "calendar")
  /\ UNCHANGED <<db, nextBid, nextLid, orphans, intents, today, ops>>
  /\ IF BlockedCount(db.avail, req[r].suite, req[r].ci, req[r].co) > 0
       THEN req' = Respond(r, 400, "blocked")
       ELSE req' = [req EXCEPT ![r].pc = "insert", ![r].tx = TRUE]

\* INSERT INTO bookings (... 'pending', 'pending' ...).
CreateInsert(r) ==
  /\ At(r, "create", "insert")
  /\ UNCHANGED <<nextLid, orphans, intents, today, ops>>
  /\ \E o \in Execute(r, InsBooking(nextBid,
         [suite |-> req[r].suite, ci |-> req[r].ci, co |-> req[r].co,
          status |-> "pending", pay |-> "pending", canceledAt |-> FALSE])) :
       /\ db' = o.db
       /\ req' = [req EXCEPT ![r].pc = "pay", ![r].bid = nextBid,
                             ![r].log = o.log]
  /\ nextBid' = nextBid + 1

\* processPayment(...) and, when it returns, the INSERT INTO booking_payments.
CreatePay(r) ==
  /\ At(r, "create", "pay")
  /\ UNCHANGED <<nextBid, orphans, today, ops>>
  /\ intents' = IF req[r].method = "stripe" THEN intents \cup {req[r].bid}
                                            ELSE intents
  /\ \E outcome \in ChargeOutcomes(req[r].method) :
       IF outcome = "throw"
         THEN /\ req' = [req EXCEPT ![r].pc = "failed", ![r].charge = "throw"]
              /\ UNCHANGED <<db, nextLid>>
         ELSE /\ \E o \in Execute(r, InsLedger(nextLid,
                     [booking |-> req[r].bid, amount |-> 1,
                      method |-> req[r].method, gateway |-> req[r].bid,
                      status |-> outcome])) :
                   /\ db' = o.db
                   /\ req' = [req EXCEPT ![r].pc = "update",
                                         ![r].charge = outcome,
                                         ![r].log = o.log]
              /\ nextLid' = nextLid + 1

\* "Update booking status based on payment".  payment_status is an ENUM column
\* and the sessions run in strict SQL mode, so a value outside the ENUM makes
\* the UPDATE fail; the failure is caught by catch (paymentError).
CreateUpdate(r) ==
  /\ At(r, "create", "update")
  /\ UNCHANGED <<nextBid, nextLid, orphans, intents, today, ops>>
  /\ LET bookingStatus == IF req[r].charge = "completed" THEN "confirmed"
                                                         ELSE "pending"
         paymentStatus == req[r].charge
     IN IF paymentStatus \in PaymentStatusEnum
          THEN \E o \in Execute(r, UpdBooking(req[r].bid,
                      [status |-> bookingStatus, pay |-> paymentStatus])) :
                 /\ db' = o.db
                 /\ req' = [req EXCEPT ![r].pc = "commit", ![r].log = o.log]
          ELSE /\ db' = db
               /\ req' = [req EXCEPT ![r].pc = "failed"]

\* catch (paymentError): "Record failed payment".
CreateRecordFailed(r) ==
  /\ At(r, "create", "failed")
  /\ UNCHANGED <<nextBid, orphans, intents, today, ops>>
  /\ \E o \in Execute(r, InsLedger(nextLid,
         [booking |-> req[r].bid, amount |-> 1, method |-> req[r].method,
          gateway |-> 0, status |-> "failed"])) :
       /\ db' = o.db
       /\ req' = [req EXCEPT ![r].pc = "rollback", ![r].log = o.log]
  /\ nextLid' = nextLid + 1

\* catch (paymentError): ROLLBACK and the 400 response.
CreateRollback(r) ==
  /\ At(r, "create", "rollback")
  /\ UNCHANGED <<nextBid, nextLid, intents, today, ops>>
  /\ \E o \in Rollback(r) : db' = o.db /\ orphans' = o.orphans
  /\ req' = Respond(r, 400, "payment")

\* email.js sendEmail: it returns or it throws.
MailOutcomes == {"sent", "failed"}

\* The response of a handler once its emails have gone out or failed: a
\* failure is caught by catch (emailError) and logged.
AfterEmails(r, code, msg, mail) == Respond(r, code, msg)

\* COMMIT, the confirmation emails and the 201 response.
CreateCommit(r) ==
  /\ At(r, "create", "commit")
  /\ UNCHANGED <<nextBid, nextLid, intents, today, ops>>
  /\ \E o \in Commit(r) : db' = o.db /\ orphans' = o.orphans
  /\ \E mail \in MailOutcomes : req' = AfterEmails(r, 201, "created", mail)

\* ------------------------------------------------------- PUT /:id/cancel
TruncDiv(a, b) == IF a >= 0 THEN a \div b ELSE -((-a) \div b)

\* Minutes from the request's arrival to midnight of the check-in date.
MinutesUntil(checkIn, tod) ==
  checkIn * MinutesPerDay - (today * MinutesPerDay + tod)

\* moment(booking.check_in_date).diff(moment(), 'hours')
HoursUntilCheckIn(mins) == TruncDiv(mins, MinutesPerHour)

\* canCancel: the guest, the listing's owner or an administrator.
CanCancel(role) == role \in {"guest", "owner", "admin"}

\* The policy without the administrator's exemption.
PolicyRejectsEveryone(mins, role) ==
  HoursUntilCheckIn(mins) < CancelWindowHours

\* "Check cancellation policy (24 hours before check-in)".
PolicyRejects(mins, role) ==
  HoursUntilCheckIn(mins) < CancelWindowHours /\ role # "admin"

\* The booking lookup and the checks before the transaction; a request that
\* passes them goes on to pool.execute('START TRANSACTION').
CancelBooking(r, b, role, tod) ==
  /\ Accept(r)
  /\ UNCHANGED <<db, nextBid, nextLid, orphans, intents, today>>
  /\ LET asked == [req EXCEPT ![r].kind = "cancel", ![r].bid = b,
                              ![r].role = role]
         mins == MinutesUntil(db.bookings[b].ci, tod)
     IN IF b \notin DOMAIN db.bookings
          THEN req' = Answer(asked, r, 404, "booking")
          ELSE IF ~CanCancel(role)
            THEN req' = Answer(asked, r, 403, "denied")
            ELSE IF db.bookings[b].status = "canceled"
              THEN req' = Answer(asked, r, 400, "already")
              ELSE IF db.bookings[b].status = "completed"
                THEN req' = Answer(asked, r, 400, "completed")
                ELSE IF PolicyRejects(mins, role)
                  THEN req' = Answer([asked EXCEPT ![r].mins = mins], r,
                                     400, "policy")
                  ELSE req' = [asked EXCEPT ![r].pc = "update",
                                            ![r].mins = mins,
                                            ![r].tx = TRUE,
                                            ![r].snapPay = db.bookings[b].pay]

\* UPDATE bookings SET booking_status = 'canceled', canceled_at = ...
CancelUpdate(r) ==
  /\ At(r, "cancel", "update")
  /\ UNCHANGED <<nextBid, nextLid, orphans, intents, today, ops>>
  /\ \E o \in Execute(r, UpdBooking(req[r].bid,
         [status |-> "canceled", canceledAt |-> TRUE])) :
       /\ db' = o.db
       /\ req' = [req EXCEPT ![r].log = o.log,
                   ![r].pc = IF req[r].snapPay = "paid" THEN "refund"
                                                        ELSE "commit"]

\* payment.js refundPayment: the latest completed ledger row of the booking.
CompletedPayments(ledger, b) ==
  {l \in DOMAIN ledger : ledger[l].booking = b /\ ledger[l].status = "completed"}

LatestCompleted(ledger, b) ==
  CHOOSE l \in CompletedPayments(ledger, b) :
    \A k \in CompletedPayments(ledger, b) : k <= l

\* payment.js refundPayment: what the refund can return per payment method.
RefundOutcomes(m) ==
  CASE m = "stripe" -> {"completed", "pending", "throw"}
    [] m = "paypal" -> {"completed"}
    [] m = "bank_transfer" -> {"pending"}
    [] OTHER -> {"throw"}

\* refundPayment(...) inside try { } catch (refundError): a failure is logged
\* and the cancellation goes on.
CancelRefund(r) ==
  /\ At(r, "cancel", "refund")
  /\ UNCHANGED <<db, nextBid, nextLid, orphans, intents, today, ops>>
  /\ IF CompletedPayments(db.ledger, req[r].bid) = {}
       THEN req' = [req EXCEPT ![r].pc = "commit", ![r].charge = "throw"]
       ELSE \E outcome \in
                RefundOutcomes(db.ledger[LatestCompleted(db.ledger, req[r].bid)].method) :
              req' = [req EXCEPT ![r].charge = outcome,
                        ![r].pc = IF outcome = "throw" THEN "commit"
                                                       ELSE "record"]

\* "Record refund": INSERT INTO booking_payments (..., 'refund', ...).
CancelRecordRefund(r) ==
  /\ At(r, "cancel", "record")
  /\ UNCHANGED <<nextBid, orphans, intents, today, ops>>
  /\ \E o \in Execute(r, InsLedger(nextLid,
         [booking |-> req[r].bid, amount |-> -1, method |-> "refund",
          gateway |-> 0, status |-> req[r].charge])) :
       /\ db' = o.db
       /\ req' = [req EXCEPT ![r].pc = "refunded", ![r].log = o.log]
  /\ nextLid' = nextLid + 1

\* UPDATE bookings SET payment_status = 'refunded'.
CancelMarkRefunded(r) ==
  /\ At(r, "cancel", "refunded")
  /\ UNCHANGED <<nextBid, nextLid, orphans, intents, today, ops>>
  /\ \E o \in Execute(r, UpdBooking(req[r].bid, [pay |-> "refunded"])) :
       /\ db' = o.db
       /\ req' = [req EXCEPT ![r].pc = "commit", ![r].log = o.log]

\* COMMIT, the cancellation emails and the success response.
CancelCommit(r) ==
  /\ At(r, "cancel", "commit")
  /\ UNCHANGED <<nextBid, nextLid, intents, today, ops>>
  /\ \E o \in Commit(r) : db' = o.db /\ orphans' = o.orphans
  /\ \E mail \in MailOutcomes : req' = AfterEmails(r, 200, "ok", mail)

\* ------------------------------------------------------- PUT /:id/status
CanUpdate(role) == role \in {"owner", "admin"}

UpdateStatus(r, b, role, status) ==
  /\ Accept(r)
  /\ UNCHANGED <<db, nextBid, nextLid, orphans, intents, today>>
  /\ LET asked == [req EXCEPT ![r].kind = "status", ![r].bid = b,
                              ![r].role = role, ![r].status = status]
     IN IF b \notin DOMAIN db.bookings
          THEN req' = Answer(asked, r, 404, "booking")
          ELSE IF ~CanUpdate(role)
            THEN req' = Answer(asked, r, 403, "denied")
            ELSE req' = [asked EXCEPT ![r].pc = "update"]

\* UPDATE bookings SET booking_status = ?, updated_at = CURRENT_TIMESTAMP.
StatusWrite(r) ==
  /\ At(r, "status", "update")
  /\ UNCHANGED <<nextBid, nextLid, orphans, intents, today, ops>>
  /\ db' = Apply(db, UpdBooking(req[r].bid, [status |-> req[r].status]))
  /\ req' = Respond(r, 200, "ok")

\* --------------------------------------- POST /api/v1/webhooks/stripe
\* payment_intent.succeeded: handlePaymentSuccess, first statement.
WebhookPaymentSucceeded(r, ref) ==
  /\ Accept(r)
  /\ ref \in intents
  /\ UNCHANGED <<nextBid, nextLid, orphans, intents, today>>
  /\ db' = Apply(db, UpdBooking(ref, [status |-> "confirmed", pay |-> "paid"]))
  /\ req' = [req EXCEPT ![r].kind = "succeeded", ![r].bid = ref,
                        ![r].pc = "ledger"]

\* The route without the signature check: the payload is handled.
WebhookUnverified(r, ref) ==
  /\ Accept(r)
  /\ UNCHANGED <<nextBid, nextLid, orphans, intents, today>>
  /\ db' = Apply(db, UpdBooking(ref, [status |-> "confirmed", pay |-> "paid"]))
  /\ req' = Answer([req EXCEPT ![r].kind = "webhook", ![r].bid = ref],
                   r, 400, "signature")

\* A request whose stripe-signature header does not verify:
\* verifyWebhookSignature throws before handleWebhookEvent is reached and the
\* route's catch answers 400.  The payload may name any booking.
WebhookInvalidSignature(r, ref) ==
  /\ Accept(r)
  /\ UNCHANGED <<db, nextBid, nextLid, orphans, intents, today>>
  /\ req' = Answer([req EXCEPT ![r].kind = "webhook", ![r].bid = ref],
                   r, 400, "signature")

\* A second statement that records the event in a further ledger row.
WebhookSucceededLedgerAppends(r) ==
  /\ At(r, "succeeded", "ledger")
  /\ UNCHANGED <<nextBid, orphans, intents, today, ops>>
  /\ db' = Apply(db, InsLedger(nextLid,
              [booking |-> req[r].bid, amount |-> 1, method |-> "stripe",
               gateway |-> req[r].bid, status |-> "completed"]))
  /\ nextLid' = nextLid + 1
  /\ req' = Respond(r, 200, "ok")

\* handlePaymentSuccess, second statement, and the 200 response.
WebhookSucceededLedger(r) ==
  /\ At(r, "succeeded", "ledger")
  /\ UNCHANGED <<nextBid, nextLid, orphans, intents, today, ops>>
  /\ db' = Apply(db, UpdLedgerByGateway(req[r].bid, [status |-> "completed"]))
  /\ req' = Respond(r, 200, "ok")

\* payment_intent.payment_failed: handlePaymentFailure, first statement.
WebhookPaymentFailed(r, ref) ==
  /\ Accept(r)
  /\ ref \in intents
  /\ UNCHANGED <<nextBid, nextLid, orphans, intents, today>>
  /\ db' = Apply(db, UpdBooking(ref, [pay |-> "failed"]))
  /\ req' = [req EXCEPT ![r].kind = "failed", ![r].bid = ref,
                        ![r].pc = "ledger"]

\* handlePaymentFailure, second statement, and the 200 response.
WebhookFailedLedger(r) ==
  /\ At(r, "failed", "ledger")
  /\ UNCHANGED <<nextBid, nextLid, orphans, intents, today, ops>>
  /\ db' = Apply(db, UpdLedgerByGateway(req[r].bid, [status |-> "failed"]))
  /\ req' = Respond(r, 200, "ok")

\* charge.dispute.created: handleDispute.  'disputed' is not a member of the
\* transaction_status ENUM, so the UPDATE is refused; the handler's catch
\* logs it and the route answers 200.
WebhookDispute(r, ref) ==
  /\ Accept(r)
  /\ ref \in intents
  /\ UNCHANGED <<nextBid, nextLid, orphans, intents, today>>
  /\ db' = IF "disputed" \in TransactionStatusEnum
             THEN Apply(db, UpdLedgerByGateway(ref, [status |-> "disputed"]))
             ELSE db
  /\ req' = Answer([req EXCEPT ![r].kind = "dispute", ![r].bid = ref],
                   r, 200, "ok")

\* ------------------------------------------------ PUT /:id/availability
DateEntries == [date : Days, isAvailable : BOOLEAN]

RECURSIVE SeqsUpTo(_, _)
SeqsUpTo(S, n) ==
  IF n = 0 THEN {<<>>}
  ELSE LET shorter == SeqsUpTo(S, n - 1)
       IN shorter \cup {Append(q, e) : q \in shorter, e \in S}

UpdateAvailability(r, s, dates, role) ==
  /\ Accept(r)
  /\ dates # <<>>
  /\ UNCHANGED <<db, nextBid, nextLid, orphans, intents, today>>
  /\ LET asked == [req EXCEPT ![r].kind = "availability", ![r].suite = s,
                              ![r].role = role]
     IN IF ~CanUpdate(role)
          THEN req' = Answer(asked, r, 403, "denied")
          ELSE req' = [asked EXCEPT ![r].pc = "upsert", ![r].dates = dates]

\* One round of "for (const dateInfo of dates)": INSERT ... ON DUPLICATE KEY
\* UPDATE; the response follows the last one.
AvailabilityUpsert(r) ==
  /\ At(r, "availability", "upsert")
  /\ UNCHANGED <<nextBid, nextLid, orphans, intents, today, ops>>
  /\ LET e == Head(req[r].dates)
         left == Tail(req[r].dates)
     IN /\ db' = Apply(db, UpsertAvail(req[r].suite, e.date,
                         IF e.isAvailable THEN "available" ELSE "blocked"))
        /\ req' = IF left = <<>> THEN Respond(r, 200, "ok")
                                 ELSE [req EXCEPT ![r].dates = left]

BookingIds == 1..(nextBid - 1)

Next ==
  \/ \E r \in Reqs, s \in Suites, ci \in Days, co \in Days,
        g \in GuestCounts, m \in PaymentMethods : CreateBooking(r, s, ci, co, g, m)
  \/ \E r \in Reqs : CreateCheckConflicts(r)
  \/ \E r \in Reqs : CreateCheckCalendar(r)
  \/ \E r \in Reqs : CreateInsert(r)
  \/ \E r \in Reqs : CreatePay(r)
  \/ \E r \in Reqs : CreateUpdate(r)
  \/ \E r \in Reqs : CreateRecordFailed(r)
  \/ \E r \in Reqs : CreateRollback(r)
  \/ \E r \in Reqs : CreateCommit(r)
  \/ \E r \in Reqs, b \in BookingIds, role \in Roles, tod \in TimesOfDay :
       CancelBooking(r, b, role, tod)
  \/ \E r \in Reqs : CancelUpdate(r)
  \/ \E r \in Reqs : CancelRefund(r)
  \/ \E r \in Reqs : CancelRecordRefund(r)
  \/ \E r \in Reqs : CancelMarkRefunded(r)
  \/ \E r \in Reqs : CancelCommit(r)
  \/ \E r \in Reqs, b \in BookingIds, role \in Roles, st \in BookingStatusEnum :
       UpdateStatus(r, b, role, st)
  \/ \E r \in Reqs : StatusWrite(r)
  \/ \E r \in Reqs, ref \in intents : WebhookPaymentSucceeded(r, ref)
  \/ \E r \in Reqs : WebhookSucceededLedger(r)
  \/ \E r \in Reqs, ref \in BookingIds : WebhookInvalidSignature(r, ref)
  \/ \E r \in Reqs, s \in Suites, role \in Roles,
        dates \in SeqsUpTo(DateEntries, MaxDatesPerRequest) :
       UpdateAvailability(r, s, dates, role)
  \/ \E r \in Reqs : AvailabilityUpsert(r)
  \/ \E r \in Reqs : Finish(r)
  \/ \E log \in orphans : OrphanCommitted(log)
  \/ \E log \in orphans : OrphanRolledBack(log)

Spec == Init /\ [][Next]_vars

\* ------------------- the checks of POST / and of PUT /:id/cancel alone
\* One create or cancel request against an arbitrary small bookings table,
\* or one create request against an arbitrary calendar of the listing.  The
\* request is followed up to the end of its checks.
OtherSuite == "s2"

CheckRows ==
  {row \in [suite : Suites \cup {OtherSuite}, ci : Days, co : Days,
            status : BookingStatusEnum, pay : {"pending"},
            canceledAt : BOOLEAN] :
     row.ci < row.co /\ (row.canceledAt <=> row.status = "canceled")}

CheckTables == SeqsUpTo(CheckRows, 2)

CheckCalendars == [Days -> {"none", "available", "blocked"}]

\* A listing whose pricing_rules row sets no maximum stay.
CheckRules == [capacity |-> 4, minimum_stay |-> 1, maximum_stay |-> 0]

InitCheck ==
  /\ \E t \in CheckTables, c \in CheckCalendars :
       /\ t = <<>> \/ c = [d \in Days |-> "none"]
       /\ db = [bookings |-> t,
                ledger |-> <<>>,
                avail |-> [s \in Suites |-> c],
                active |-> [s \in Suites |-> TRUE],
                rules |-> [s \in Suites |-> CheckRules]]
       /\ nextBid = Len(t) + 1
  /\ nextLid = 1
  /\ orphans = {}
  /\ req = [r \in Reqs |-> Idle]
  /\ intents = {}
  /\ today = 0
  /\ ops = MaxOps - 1

NextCheck ==
  \/ \E r \in Reqs, s \in Suites, ci \in Days, co \in Days,
        g \in GuestCounts, m \in PaymentMethods : CreateBooking(r, s, ci, co, g, m)
  \/ \E r \in Reqs : CreateCheckConflicts(r)
  \/ \E r \in Reqs : CreateCheckCalendar(r)
  \/ \E r \in Reqs, b \in BookingIds, role \in Roles, tod \in TimesOfDay :
       CancelBooking(r, b, role, tod)
  \/ \E r \in Reqs : Finish(r)

SpecCheck == InitCheck /\ [][NextCheck]_vars

\* ------------------------------------------- services/pricing.js alone
\* calculatePricing applied to one input.  Day 0 of the calendar is
\* 2025-08-15, a Friday; amounts of money are whole cents; a nightly rate,
\* which the code multiplies by 1.5 and by two multipliers, is carried in
\* RateScale-ths of a cent, the multipliers in hundredths.

\* The part of a cent in which nightlyRate and its sums are carried.
RateScale == 2000

\* currentDate.day(): 0 is Sunday, 6 is Saturday.
DayOfWeek(d) == (d + 5) % 7

\* holidays2025 within the calendar: 2025-08-16, a Saturday, and
\* 2025-09-24, a Wednesday.
HolidayDates == {1, 40}

\* parseFloat(column) || fallback, for a column that is NULL (<<>>) or holds
\* one number.
ParseFloatOr(column, fallback) ==
  IF column = <<>> \/ column[1] = 0 THEN fallback ELSE column[1]

\* Math.round(x * 100) / 100 of an amount carried in parts of a cent.
RoundCents(x) == (x + RateScale \div 2) \div RateScale

\* The rate of a night with the weekend price applied after the holiday price.
NightlyRateWeekendLast(suite, d) ==
  LET basePrice == suite.base_price
      weekendPrice == ParseFloatOr(suite.weekend_price, basePrice)
      holiday == IF d \in HolidayDates
                   THEN (basePrice * RateScale * 3) \div 2
                   ELSE basePrice * RateScale
  IN IF DayOfWeek(d) \in {5, 6} THEN weekendPrice * RateScale ELSE holiday

\* nightlyRate of a night before the seasonal and demand multipliers: the
\* base price, replaced by the weekend price on Friday and Saturday, replaced
\* by basePrice * 1.5 on a holiday.
NightlyRate(suite, d) ==
  LET basePrice == suite.base_price
      weekendPrice == ParseFloatOr(suite.weekend_price, basePrice)
      byDay == IF DayOfWeek(d) \in {5, 6} THEN weekendPrice ELSE basePrice
  IN IF d \in HolidayDates
       THEN (basePrice * RateScale * 3) \div 2
       ELSE byDay * RateScale

GetRateType(d) ==
  IF d \in HolidayDates THEN "holiday"
  ELSE IF DayOfWeek(d) \in {5, 6} THEN "weekend"
  ELSE "weekday"

\* getSeasonalMultiplier, in hundredths: the largest multiplier of the active
\* rules of the suite that cover the date, 1.0 without one.
SeasonalMultiplier(seasonal, s, d) ==
  LET rules == {x \in seasonal : /\ x.suite = s /\ x.active
                                 /\ x.start <= d /\ x.end >= d}
  IN IF rules = {} THEN 100
     ELSE CHOOSE m \in {x.multiplier : x \in rules} :
            \A x \in rules : x.multiplier <= m

\* getDemandMultiplier, in hundredths.  The query counts the confirmed
\* bookings of the city that cover the date against its active suites; it
\* yields no suite count when no booking matches, and depending on the
\* server's sql_mode it is refused, which the function answers with 1.0.
DemandMultipliers(store, d) ==
  LET booked == Cardinality({b \in DOMAIN store.bookings :
                               /\ store.bookings[b].status = "confirmed"
                               /\ store.bookings[b].ci <= d
                               /\ d <= store.bookings[b].co - 1})
      total == IF booked = 0 THEN 0
               ELSE Cardinality({s \in Suites : store.active[s]})
      byOccupancy == IF total = 0 THEN 100
                     ELSE IF 10 * booked > 9 * total THEN 130
                     ELSE IF 10 * booked > 8 * total THEN 120
                     ELSE IF 10 * booked > 7 * total THEN 110
                     ELSE IF 10 * booked < 3 * total THEN 90
                     ELSE 100
  IN {100, byOccupancy}

\* One entry of the discount list; the amount is
\* Math.round(subtotal * rate * 100) / 100.
Discount(type, rate, subtotal) ==
  [type |-> type, rate |-> rate,
   amount |-> (subtotal * rate + 50 * RateScale) \div (100 * RateScale)]

\* A pop that removes nothing.
PopNothing(list) == list

\* discounts.pop()
Pop(list) == IF list = <<>> THEN list ELSE SubSeq(list, 1, Len(list) - 1)

\* moment(checkInDate).diff(moment(), 'days')
DaysUntilCheckIn(mins) == TruncDiv(mins, MinutesPerDay)

\* The discount list without the removal of the weekly discount.
CalculateDiscountsKeepWeekly(subtotal, nights, daysUntilCheckIn, propertyAge) ==
  LET weekly == IF nights >= WeeklyNights
                  THEN <<Discount("weekly_stay", WeeklyDiscountRate, subtotal)>>
                  ELSE <<>>
      monthly == IF nights >= MonthlyNights
                   THEN Append(weekly, Discount("monthly_stay",
                                                MonthlyDiscountRate, subtotal))
                   ELSE weekly
      early == IF daysUntilCheckIn >= EarlyBirdDays
                 THEN Append(monthly, Discount("early_bird", EarlyBirdRate,
                                               subtotal))
                 ELSE monthly
      last == IF daysUntilCheckIn <= LastMinuteDays /\ daysUntilCheckIn >= 1
                THEN Append(early, Discount("last_minute", LastMinuteRate,
                                            subtotal))
                ELSE early
  IN IF propertyAge # <<>> /\ propertyAge[1] <= NewPropertyDays
       THEN Append(last, Discount("new_property", NewPropertyRate, subtotal))
       ELSE last

\* calculateDiscounts.  propertyAge is the result of the days_old query: one
\* number, or <<>> when it returns no row or fails, which ends the function
\* with the discounts pushed so far.
CalculateDiscounts(subtotal, nights, daysUntilCheckIn, propertyAge) ==
  LET weekly == IF nights >= WeeklyNights
                  THEN <<Discount("weekly_stay", WeeklyDiscountRate, subtotal)>>
                  ELSE <<>>
      monthly == IF nights >= MonthlyNights
                   THEN Append(Pop(weekly), Discount("monthly_stay",
                                                     MonthlyDiscountRate,
                                                     subtotal))
                   ELSE weekly
      early == IF daysUntilCheckIn >= EarlyBirdDays
                 THEN Append(monthly, Discount("early_bird", EarlyBirdRate,
                                               subtotal))
                 ELSE monthly
      last == IF daysUntilCheckIn <= LastMinuteDays /\ daysUntilCheckIn >= 1
                THEN Append(early, Discount("last_minute", LastMinuteRate,
                                            subtotal))
                ELSE early
  IN IF propertyAge # <<>> /\ propertyAge[1] <= NewPropertyDays
       THEN Append(last, Discount("new_property", NewPropertyRate, subtotal))
       ELSE last

\* getTaxRate, in percent: the rate of the city, else of the country, else
\* 10%.
GetTaxRate(country, city) ==
  LET taxRates ==
        "Dominican Republic" :> ("default" :> 18 @@ "Santo Domingo" :> 18
                                 @@ "Punta Cana" :> 16 @@ "Puerto Plata" :> 16)
        @@ "United States" :> ("default" :> 8 @@ "New York" :> 12
                               @@ "Florida" :> 6 @@ "California" :> 10)
        @@ "Canada" :> ("default" :> 13 @@ "Toronto" :> 13 @@ "Vancouver" :> 12)
  IN IF country \notin DOMAIN taxRates THEN 10
     ELSE IF city \in DOMAIN taxRates[country] THEN taxRates[country][city]
     ELSE taxRates[country]["default"]

\* discounts.reduce((sum, discount) => sum + discount.amount, 0), in cents.
RECURSIVE DiscountAmount(_)
DiscountAmount(discounts) ==
  IF discounts = <<>> THEN 0
  ELSE Head(discounts).amount + DiscountAmount(Tail(discounts))

\* Math.round(amount * rate * 100) / 100 for a rate in percent.
RoundShare(amount, rate) ==
  (amount * rate + 50 * RateScale) \div (100 * RateScale)

\* The totals with the tax taken before the cleaning fee is added.
TotalsTaxBeforeCleaning(suite, subtotal, discounts) ==
  LET cleaningFee == ParseFloatOr(suite.cleaning_fee, 0)
      securityDeposit == ParseFloatOr(suite.security_deposit, 0)
      discountAmount == DiscountAmount(discounts)
      taxRate == GetTaxRate(suite.country, suite.city)
      taxes == RoundShare(subtotal - discountAmount * RateScale, taxRate)
      platformFee == RoundShare(subtotal - discountAmount * RateScale,
                                PlatformFeeRate)
      total == subtotal + (cleaningFee + taxes + platformFee + securityDeposit
                           - discountAmount) * RateScale
  IN [cleaning_fee |-> cleaningFee, security_deposit |-> securityDeposit,
      discount_total |-> discountAmount, taxes |-> taxes, tax_rate |-> taxRate,
      platform_fee |-> platformFee, subtotal |-> RoundCents(subtotal),
      total |-> RoundCents(total),
      total_without_deposit |->
        RoundCents(total - securityDeposit * RateScale)]

\* Taxes, platform fee and totals of calculatePricing and the amounts it
\* returns, in cents; subtotal and total are carried in parts of a cent.
Totals(suite, subtotal, discounts) ==
  LET cleaningFee == ParseFloatOr(suite.cleaning_fee, 0)
      securityDeposit == ParseFloatOr(suite.security_deposit, 0)
      discountAmount == DiscountAmount(discounts)
      taxRate == GetTaxRate(suite.country, suite.city)
      taxableAmount == subtotal + (cleaningFee - discountAmount) * RateScale
      taxes == RoundShare(taxableAmount, taxRate)
      platformFee == RoundShare(subtotal - discountAmount * RateScale,
                                PlatformFeeRate)
      total == subtotal + (cleaningFee + taxes + platformFee + securityDeposit
                           - discountAmount) * RateScale
  IN [cleaning_fee |-> cleaningFee, security_deposit |-> securityDeposit,
      discount_total |-> discountAmount, taxes |-> taxes, tax_rate |-> taxRate,
      platform_fee |-> platformFee, subtotal |-> RoundCents(subtotal),
      total |-> RoundCents(total),
      total_without_deposit |->
        RoundCents(total - securityDeposit * RateScale)]

\* The locals of calculatePricing.
PricingLocals == [guests |-> 0, nights |-> 0, i |-> 0, nightlyRate |-> 0,
                  totalNightlyRate |-> 0, nightlyBreakdown |-> <<>>,
                  subtotal |-> 0, discounts |-> <<>>, propertyAge |-> <<>>,
                  breakdown |-> <<>>]

\* const nights = checkOut.diff(checkIn, 'days'); a range without a night
\* throws.
CalculatePricing(r) ==
  /\ At(r, "pricing", "start")
  /\ UNCHANGED <<db, nextBid, nextLid, orphans, intents, today, ops>>
  /\ LET nights == req[r].co - req[r].ci
     IN IF nights <= 0
          THEN req' = Respond(r, 500, "range")
          ELSE req' = [req EXCEPT ![r].nights = nights, ![r].pc = "rate"]

\* The loop body down to the holiday rule.
PricingNightlyRate(r) ==
  /\ At(r, "pricing", "rate")
  /\ UNCHANGED <<db, nextBid, nextLid, orphans, intents, today, ops>>
  /\ req' = [req EXCEPT
       ![r].nightlyRate = NightlyRate(db.rules[req[r].suite],
                                      req[r].ci + req[r].i),
       ![r].pc = "multipliers"]

\* The rest of the loop body: the two multipliers, the sum and the entry of
\* the breakdown.
PricingMultipliers(r) ==
  /\ At(r, "pricing", "multipliers")
  /\ UNCHANGED <<db, nextBid, nextLid, orphans, intents, today, ops>>
  /\ \E demand \in DemandMultipliers(db, req[r].ci + req[r].i) :
       LET d == req[r].ci + req[r].i
           seasonal == SeasonalMultiplier(db.seasonal, req[r].suite, d)
           rate == (((req[r].nightlyRate * seasonal) \div 100) * demand)
                     \div 100
       IN req' = [req EXCEPT
            ![r].nightlyRate = rate,
            ![r].totalNightlyRate = @ + rate,
            ![r].nightlyBreakdown =
               Append(@, [date |-> d, rate |-> RoundCents(rate),
                          type |-> GetRateType(d)]),
            ![r].i = @ + 1,
            ![r].pc = IF req[r].i + 1 < req[r].nights
                        THEN "rate" ELSE "discounts"]

\* Extra-guest fees, the subtotal, calculateDiscounts at a time of day and
\* with a result of the days_old query, and the totals.
PricingDiscounts(r, tod, propertyAge) ==
  /\ At(r, "pricing", "discounts")
  /\ UNCHANGED <<db, nextBid, nextLid, orphans, intents, today, ops>>
  /\ LET suite == db.rules[req[r].suite]
         extraGuestFee == ParseFloatOr(suite.extra_guest_fee, 0)
         extraGuests == IF req[r].guests > IncludedGuests
                          THEN req[r].guests - IncludedGuests ELSE 0
         subtotal == req[r].totalNightlyRate
                       + extraGuests * extraGuestFee * req[r].nights * RateScale
         mins == MinutesUntil(req[r].ci, tod)
         discounts == CalculateDiscounts(subtotal, req[r].nights,
                                         DaysUntilCheckIn(mins), propertyAge)
     IN req' = Answer([req EXCEPT
                  ![r].subtotal = subtotal,
                  ![r].mins = mins,
                  ![r].propertyAge = propertyAge,
                  ![r].discounts = discounts,
                  ![r].breakdown = Totals(suite, subtotal, discounts)],
                r, 200, "priced")

\* The inputs of the pricing service.
PricingCheckIns == {0, 1, 12}
LeadDays == {1, 4, 30}
WeekendPrices == {<<>>, <<0>>, <<240>>}
PropertyAges == {<<>>, <<30>>, <<31>>}
Locations == {<<"Dominican Republic", "Punta Cana">>,
              <<"Dominican Republic", "Samana">>, <<"Mexico", "Cancun">>}
PricingRules(weekend, location) ==
  [capacity |-> 4, minimum_stay |-> 1, maximum_stay |-> 0,
   base_price |-> 201, weekend_price |-> weekend, extra_guest_fee |-> <<50>>,
   cleaning_fee |-> <<75>>, security_deposit |-> <<100>>,
   country |-> location[1], city |-> location[2]]
SeasonalTables ==
  {{}, {[suite |-> "s1", start |-> 1, end |-> 2, multiplier |-> 180,
         active |-> TRUE]}}
BookingTables ==
  {<<>>, <<[suite |-> "s1", ci |-> 1, co |-> 2, status |-> "confirmed",
            pay |-> "paid", canceledAt |-> FALSE]>>}

InitPricing ==
  /\ \E weekend \in WeekendPrices, t \in BookingTables, se \in SeasonalTables,
        location \in Locations :
       /\ db = [bookings |-> t,
                ledger |-> <<>>,
                avail |-> [s \in Suites |-> [d \in Days |-> "none"]],
                active |-> [s \in Suites |-> TRUE],
                rules |-> [s \in Suites |-> PricingRules(weekend, location)],
                seasonal |-> se]
       /\ nextBid = Len(t) + 1
  /\ \E s \in Suites, checkIn \in PricingCheckIns, nights \in 0..MaxNights,
        lead \in LeadDays, g \in GuestCounts :
       /\ today = checkIn - lead
       /\ req = [r \in Reqs |->
                   IF r = 1
                     THEN [PricingLocals EXCEPT !.guests = g] @@
                          [Idle EXCEPT !.kind = "pricing", !.pc = "start",
                                       !.suite = s, !.ci = checkIn,
                                       !.co = checkIn + nights]
                     ELSE Idle]
  /\ nextLid = 1
  /\ orphans = {}
  /\ intents = {}
  /\ ops = MaxOps

NextPricing ==
  \/ \E r \in Reqs : CalculatePricing(r)
  \/ \E r \in Reqs : PricingNightlyRate(r)
  \/ \E r \in Reqs : PricingMultipliers(r)
  \/ \E r \in Reqs, tod \in TimesOfDay, age \in PropertyAges :
       PricingDiscounts(r, tod, age)
  \/ \E r \in Reqs : Finish(r)

SpecPricing == InitPricing /\ [][NextPricing]_vars

\* ----------------------------------- routes/reviews.js and moderation
\* Reviews of one completed booking.  A row of the reviews table is kept
\* under its id; a nullable column is <<>> for NULL or holds one value.  No
\* statement of these routes is sent inside a transaction.

\* reviews.is_approved BOOLEAN DEFAULT TRUE: the value of a row inserted
\* without the column.
IsApprovedDefault == <<TRUE>>

Users == {"guest", "stranger", "admin"}

\* The guest of every booking of the model is the user "guest".
IsGuestOf(user, b) == user = "guest"

ReviewRequest(kind, user, b, rid, set) ==
  [user |-> user, rid |-> rid, set |-> set] @@
  [Idle EXCEPT !.kind = kind, !.bid = b]

\* POST /api/v1/reviews: the booking lookup and the completed check.
CreateReview(r, b, user, review) ==
  /\ Accept(r)
  /\ UNCHANGED <<db, nextBid, nextLid, orphans, intents, today>>
  /\ LET asked == [req EXCEPT ![r] = ReviewRequest("review", user, b, 0, review)]
     IN IF b \notin DOMAIN db.bookings \/ ~IsGuestOf(user, b)
          THEN req' = Answer(asked, r, 404, "booking")
          ELSE IF db.bookings[b].status # "completed"
            THEN req' = Answer(asked, r, 400, "completed")
            ELSE req' = [asked EXCEPT ![r].pc = "existing"]

\* SELECT id FROM reviews WHERE booking_id = ?
ReviewCheckExisting(r) ==
  /\ At(r, "review", "existing")
  /\ UNCHANGED <<db, nextBid, nextLid, orphans, intents, today, ops>>
  /\ IF \E id \in DOMAIN db.reviews : db.reviews[id].booking = req[r].bid
       THEN req' = Respond(r, 400, "exists")
       ELSE req' = [req EXCEPT ![r].pc = "insert"]

\* INSERT INTO reviews (booking_id, suite_id, reviewer_id, rating, title,
\* comment), the notification of the owner and the 201 response.
ReviewInsert(r) ==
  /\ At(r, "review", "insert")
  /\ UNCHANGED <<nextBid, nextLid, orphans, intents, today, ops>>
  /\ db' = [db EXCEPT
       !.reviews = (db.review_seq :>
                      ([booking |-> req[r].bid, reviewer |-> req[r].user,
                        is_approved |-> IsApprovedDefault] @@ req[r].set)) @@ @,
       !.review_seq = @ + 1]
  /\ \E mail \in MailOutcomes :
       req' = AfterEmails(r, 201, "created", mail)

\* PUT /api/v1/reviews/:id: the lookup and the checks of the author and of
\* the approval flag.
UpdateReview(r, rid, user, set) ==
  /\ Accept(r)
  /\ UNCHANGED <<db, nextBid, nextLid, orphans, intents, today>>
  /\ LET asked == [req EXCEPT ![r] = ReviewRequest("edit", user, 0, rid, set)]
     IN IF rid \notin DOMAIN db.reviews
          THEN req' = Answer(asked, r, 404, "review")
          ELSE IF db.reviews[rid].reviewer # user
            THEN req' = Answer(asked, r, 403, "denied")
            ELSE IF db.reviews[rid].is_approved # <<>>
              THEN req' = Answer(asked, r, 400, "moderated")
              ELSE IF DOMAIN set = {}
                THEN req' = Answer(asked, r, 400, "fields")
                ELSE req' = [asked EXCEPT ![r].pc = "update"]

\* UPDATE reviews SET <fields> WHERE id = ?
ReviewUpdateWrite(r) ==
  /\ At(r, "edit", "update")
  /\ UNCHANGED <<nextBid, nextLid, orphans, intents, today, ops>>
  /\ db' = IF req[r].rid \in DOMAIN db.reviews
             THEN [db EXCEPT !.reviews[req[r].rid] = Override(@, req[r].set)]
             ELSE db
  /\ req' = Respond(r, 200, "ok")

\* PUT /api/v1/admin/reviews/:id/moderate, behind requireAdmin.
ModerateReview(r, rid, user, isApproved) ==
  /\ Accept(r)
  /\ UNCHANGED <<nextBid, nextLid, orphans, intents, today>>
  /\ LET asked == [req EXCEPT ![r] = ReviewRequest("moderate", user, 0, rid,
                                                   <<>>)]
     IN IF user # "admin"
          THEN db' = db /\ req' = Answer(asked, r, 403, "denied")
          ELSE /\ db' = IF rid \in DOMAIN db.reviews
                          THEN [db EXCEPT !.reviews[rid].is_approved =
                                            <<isApproved>>]
                          ELSE db
               /\ req' = Answer(asked, r, 200, "ok")

\* DELETE /api/v1/reviews/:id: the lookup and the checks.
DeleteReview(r, rid, user) ==
  /\ Accept(r)
  /\ UNCHANGED <<db, nextBid, nextLid, orphans, intents, today>>
  /\ LET asked == [req EXCEPT ![r] = ReviewRequest("unreview", user, 0, rid,
                                                   <<>>)]
     IN IF rid \notin DOMAIN db.reviews
          THEN req' = Answer(asked, r, 404, "review")
          ELSE IF db.reviews[rid].reviewer # user /\ user # "admin"
            THEN req' = Answer(asked, r, 403, "denied")
            ELSE IF db.reviews[rid].is_approved # <<>> /\ user # "admin"
              THEN req' = Answer(asked, r, 400, "moderated")
              ELSE req' = [asked EXCEPT ![r].pc = "delete"]

\* DELETE FROM reviews WHERE id = ?
ReviewDelete(r) ==
  /\ At(r, "unreview", "delete")
  /\ UNCHANGED <<nextBid, nextLid, orphans, intents, today, ops>>
  /\ db' = [db EXCEPT !.reviews =
              [id \in DOMAIN @ \ {req[r].rid} |-> @[id]]]
  /\ req' = Respond(r, 200, "ok")

\* What a guest writes and rewrites.
NewReviews == {[rating |-> 5, title |-> <<"t">>, comment |-> "c"]}
ReviewEdits == {<<>>, [rating |-> 1], [title |-> <<>>, comment |-> "d"]}
ReviewIds == 1..(db.review_seq - 1)

\* Booking 1 has been completed by its owner and has no review yet.
InitReviews ==
  /\ db = [bookings |-> <<[SeedBooking EXCEPT !.status = "completed"]>>,
           ledger |-> <<SeedPayment>>,
           avail |-> [s \in Suites |-> [d \in Days |-> "none"]],
           active |-> [s \in Suites |-> TRUE],
           rules |-> [s \in Suites |-> SeedRules],
           reviews |-> <<>>,
           review_seq |-> 1]
  /\ nextBid = 2
  /\ nextLid = 2
  /\ orphans = {}
  /\ req = [r \in Reqs |-> Idle]
  /\ intents = {1}
  /\ today = 0
  /\ ops = 0

\* The UPDATE of PUT /:id is not among the steps: it follows a lookup that
\* finds a NULL approval flag, and no row these routes write has one.
NextReviews ==
  \/ \E r \in Reqs, b \in BookingIds, user \in Users, review \in NewReviews :
       CreateReview(r, b, user, review)
  \/ \E r \in Reqs : ReviewCheckExisting(r)
  \/ \E r \in Reqs : ReviewInsert(r)
  \/ \E r \in Reqs, rid \in ReviewIds, user \in Users, set \in ReviewEdits :
       UpdateReview(r, rid, user, set)
  \/ \E r \in Reqs, rid \in ReviewIds, user \in Users, a \in BOOLEAN :
       ModerateReview(r, rid, user, a)
  \/ \E r \in Reqs, rid \in ReviewIds, user \in Users : DeleteReview(r, rid, user)
  \/ \E r \in Reqs : ReviewDelete(r)
  \/ \E r \in Reqs, b \in BookingIds, role \in Roles, st \in BookingStatusEnum :
       UpdateStatus(r, b, role, st)
  \/ \E r \in Reqs : StatusWrite(r)
  \/ \E r \in Reqs : Finish(r)

SpecReviews == InitReviews /\ [][NextReviews]_vars

\* ------------------------------------- DELETE /api/v1/suites/:id alone
\* suites.js DELETE /:id, "Check ownership": the listing's owner and admins
\* pass.
CanDelete(role) == role \in {"owner", "admin"}

\* "Check for active bookings": confirmed or pending bookings of the listing
\* with check_out_date > CURDATE().
ActiveBookings(bookings, s) ==
  Cardinality({b \in DOMAIN bookings :
     /\ bookings[b].suite = s
     /\ bookings[b].status \in {"confirmed", "pending"}
     /\ bookings[b].co > today})

\* The ownership lookup (first statement) and its 404 and 403 answers.
DeleteSuite(r, s, role) ==
  /\ Accept(r)
  /\ UNCHANGED <<db, nextBid, nextLid, orphans, intents, today>>
  /\ LET asked == [req EXCEPT ![r].kind = "delete", ![r].suite = s,
                              ![r].role = role]
     IN IF s \notin DOMAIN db.active
          THEN req' = Answer(asked, r, 404, "suite")
          ELSE IF ~CanDelete(role)
            THEN req' = Answer(asked, r, 403, "denied")
            ELSE req' = [asked EXCEPT ![r].pc = "bookings"]

\* The count of active bookings (second statement) and its 400 answer.
DeleteCheckBookings(r) ==
  /\ At(r, "delete", "bookings")
  /\ UNCHANGED <<db, nextBid, nextLid, orphans, intents, today, ops>>
  /\ IF ActiveBookings(db.bookings, req[r].suite) > 0
       THEN req' = Respond(r, 400, "active")
       ELSE req' = [req EXCEPT ![r].pc = "deactivate"]

\* "Soft delete (deactivate)": UPDATE suites SET is_active = false.
DeleteDeactivate(r) ==
  /\ At(r, "delete", "deactivate")
  /\ UNCHANGED <<nextBid, nextLid, orphans, intents, today, ops>>
  /\ db' = Apply(db, SetActive(req[r].suite, FALSE))
  /\ req' = Respond(r, 200, "ok")

\* The seeded booking as PUT /:id/cancel leaves it once it is refunded.
CanceledBooking ==
  [SeedBooking EXCEPT !.status = "canceled", !.pay = "refunded",
                      !.canceledAt = TRUE]

\* The listing with its one earlier booking, either still confirmed or
\* canceled.
InitDelete ==
  /\ \E first \in {SeedBooking, CanceledBooking} :
       db = [bookings |-> (1 :> first),
             ledger |-> (1 :> SeedPayment),
             avail |-> [s \in Suites |-> [d \in Days |-> "none"]],
             active |-> [s \in Suites |-> TRUE],
             rules |-> [s \in Suites |-> SeedRules]]
  /\ nextBid = 2
  /\ nextLid = 2
  /\ orphans = {}
  /\ req = [r \in Reqs |-> Idle]
  /\ intents = {1}
  /\ today = 0
  /\ ops = 0

NextDelete ==
  \/ \E r \in Reqs, s \in Suites, ci \in Days, co \in Days,
        g \in GuestCounts, m \in PaymentMethods : CreateBooking(r, s, ci, co, g, m)
  \/ \E r \in Reqs : CreateCheckConflicts(r)
  \/ \E r \in Reqs : CreateCheckCalendar(r)
  \/ \E r \in Reqs : CreateInsert(r)
  \/ \E r \in Reqs : CreatePay(r)
  \/ \E r \in Reqs : CreateUpdate(r)
  \/ \E r \in Reqs : CreateRecordFailed(r)
  \/ \E r \in Reqs : CreateRollback(r)
  \/ \E r \in Reqs : CreateCommit(r)
  \/ \E r \in Reqs, s \in Suites \cup {OtherSuite}, role \in Roles :
       DeleteSuite(r, s, role)
  \/ \E r \in Reqs : DeleteCheckBookings(r)
  \/ \E r \in Reqs : DeleteDeactivate(r)
  \/ \E r \in Reqs : Finish(r)
  \/ \E log \in orphans : OrphanCommitted(log)
  \/ \E log \in orphans : OrphanRolledBack(log)

SpecDelete == InitDelete /\ [][NextDelete]_vars

\* ------------------- cancellation, status updates and payment webhooks
\* The seeded bookings without new ones: the confirmed, paid booking 1 and a
\* pending booking of another listing whose Stripe charge is still pending.
PendingBooking == [suite |-> OtherSuite, ci |-> 3, co |-> 4,
                   status |-> "pending", pay |-> "pending",
                   canceledAt |-> FALSE]
PendingPayment == [booking |-> 2, amount |-> 1, method |-> "stripe",
                   gateway |-> 2, status |-> "pending"]

InitWebhooks ==
  /\ db = [bookings |-> <<SeedBooking, PendingBooking>>,
           ledger |-> <<SeedPayment, PendingPayment>>,
           avail |-> [s \in Suites |-> [d \in Days |-> "none"]],
           active |-> [s \in Suites |-> TRUE],
           rules |-> [s \in Suites |-> SeedRules]]
  /\ nextBid = 3
  /\ nextLid = 3
  /\ orphans = {}
  /\ req = [r \in Reqs |-> Idle]
  /\ intents = {1, 2}
  /\ today = 0
  /\ ops = 0

NextWebhooks ==
  \/ \E r \in Reqs, b \in BookingIds, role \in Roles, tod \in TimesOfDay :
       CancelBooking(r, b, role, tod)
  \/ \E r \in Reqs : CancelUpdate(r)
  \/ \E r \in Reqs : CancelRefund(r)
  \/ \E r \in Reqs : CancelRecordRefund(r)
  \/ \E r \in Reqs : CancelMarkRefunded(r)
  \/ \E r \in Reqs : CancelCommit(r)
  \/ \E r \in Reqs, b \in BookingIds, role \in Roles, st \in BookingStatusEnum :
       UpdateStatus(r, b, role, st)
  \/ \E r \in Reqs : StatusWrite(r)
  \/ \E r \in Reqs, ref \in intents : WebhookPaymentSucceeded(r, ref)
  \/ \E r \in Reqs : WebhookSucceededLedger(r)
  \/ \E r \in Reqs, ref \in intents : WebhookPaymentFailed(r, ref)
  \/ \E r \in Reqs : WebhookFailedLedger(r)
  \/ \E r \in Reqs, ref \in intents : WebhookDispute(r, ref)
  \/ \E r \in Reqs : Finish(r)
  \/ \E log \in orphans : OrphanCommitted(log)
  \/ \E log \in orphans : OrphanRolledBack(log)

SpecWebhooks == InitWebhooks /\ [][NextWebhooks]_vars

\* ------------------------------------------------------------- properties
\* Two stays [ci, co) share a night.
Overlap(a, b) == a.ci < b.co /\ b.ci < a.co

Stored(b) == b \in DOMAIN db.bookings

\* C1: no two distinct bookings of the same suite, both with a status other
\* than canceled, have overlapping date ranges.
NoOverlappingBookings ==
  \A a \in DOMAIN db.bookings, b \in DOMAIN db.bookings :
    (/\ a # b
     /\ db.bookings[a].suite = db.bookings[b].suite
     /\ db.bookings[a].status # "canceled"
     /\ db.bookings[b].status # "canceled")
      => ~Overlap(db.bookings[a], db.bookings[b])

\* C2: of two create requests for the same suite and overlapping dates that
\* are in progress together, one succeeds and the other is rejected by the
\* conflict check: when one has been answered 201 the other is never past
\* every check with only its COMMIT and 201 response left.
OneOfTwoCreatesSucceeds ==
  \A r \in Reqs, q \in Reqs :
    (/\ r # q
     /\ req[r].kind = "create" /\ req[q].kind = "create"
     /\ req[r].suite = req[q].suite
     /\ Overlap(req[r], req[q])
     /\ req[r].pc = "done" /\ req[r].resp = 201)
      => req[q].pc # "commit"

\* C3: no booking with a status other than canceled covers a date that the
\* suite's calendar marks as not available.
NoBookingOnBlockedDate ==
  \A b \in DOMAIN db.bookings, d \in Days :
    (/\ db.bookings[b].status # "canceled"
     /\ db.bookings[b].suite \in Suites
     /\ db.bookings[b].ci <= d /\ d < db.bookings[b].co)
      => db.avail[db.bookings[b].suite][d] # "blocked"

\* C4: a create request that reaches the conflict check is rejected by it
\* exactly when some pending or confirmed booking of the suite has
\* check_in < candidate check_out and check_out > candidate check_in; canceled
\* and completed bookings and adjacent stays do not reject.
ConflictCheckExact ==
  \A r \in Reqs :
    (/\ req[r].kind = "create"
     /\ \/ req[r].pc \in {"calendar", "insert"}
        \/ (req[r].pc = "done" /\ req[r].msg \in {"conflict", "blocked"}))
      => ((req[r].pc = "done" /\ req[r].msg = "conflict")
            <=> \E b \in DOMAIN db.bookings :
                  /\ db.bookings[b].suite = req[r].suite
                  /\ db.bookings[b].status \in {"pending", "confirmed"}
                  /\ db.bookings[b].ci < req[r].co
                  /\ db.bookings[b].co > req[r].ci)

\* A request has passed the conflict check although a confirmed booking of
\* the suite ends on its check-in day and a canceled or completed one shares
\* nights with it.
ConflictCheckWitness ==
  \E r \in Reqs, a \in DOMAIN db.bookings, b \in DOMAIN db.bookings :
    /\ req[r].kind = "create" /\ req[r].pc = "calendar"
    /\ db.bookings[a].suite = req[r].suite
    /\ db.bookings[a].status = "confirmed"
    /\ db.bookings[a].co = req[r].ci
    /\ db.bookings[b].suite = req[r].suite
    /\ db.bookings[b].status \in {"canceled", "completed"}
    /\ Overlap(db.bookings[b], req[r])

\* C5: a create request that reaches the calendar check is rejected by it
\* exactly when some date d with check_in <= d < check_out is marked not
\* available; a blocked check-out date alone does not reject.
CalendarCheckExact ==
  \A r \in Reqs :
    (/\ req[r].kind = "create"
     /\ \/ req[r].pc = "insert"
        \/ (req[r].pc = "done" /\ req[r].msg = "blocked"))
      => ((req[r].pc = "done" /\ req[r].msg = "blocked")
            <=> \E d \in Days :
                  /\ req[r].ci <= d /\ d < req[r].co
                  /\ db.avail[req[r].suite][d] = "blocked")

\* A request has passed the calendar check although its check-out date is
\* marked not available.
CalendarCheckWitness ==
  \E r \in Reqs :
    /\ req[r].kind = "create" /\ req[r].pc = "insert"
    /\ req[r].co \in Days
    /\ db.avail[req[r].suite][req[r].co] = "blocked"

\* C6: when the charge of a create request succeeded, the booking is
\* confirmed and paid when the request ends.
ChargedBookingIsConfirmedPaid ==
  \A r \in Reqs :
    (req[r].kind = "create" /\ req[r].pc = "done"
       /\ req[r].charge = "completed")
      => /\ Stored(req[r].bid)
         /\ db.bookings[req[r].bid].status = "confirmed"
         /\ db.bookings[req[r].bid].pay = "paid"

\* C7: when the charge of a create request failed, the booking row remains,
\* pending and with payment_status failed.
FailedChargeLeavesFailedBooking ==
  \A r \in Reqs :
    (req[r].kind = "create" /\ req[r].pc = "done" /\ req[r].charge = "throw")
      => /\ Stored(req[r].bid)
         /\ db.bookings[req[r].bid].status = "pending"
         /\ db.bookings[req[r].bid].pay = "failed"

\* C8: when a create request ends, its booking row and its ledger row are
\* both stored or both absent; when a cancel request that recorded a refund
\* ends, the cancellation and the refund row are both stored or both absent.
BookingAndLedgerTogether ==
  \A r \in Reqs :
    /\ (req[r].kind = "create" /\ req[r].pc = "done" /\ req[r].bid # 0)
         => (Stored(req[r].bid)
               <=> \E l \in DOMAIN db.ledger :
                     db.ledger[l].booking = req[r].bid)
    /\ (req[r].kind = "cancel" /\ req[r].pc = "done" /\ req[r].msg = "ok"
          /\ req[r].snapPay = "paid"
          /\ req[r].charge \in {"completed", "pending"})
         => (db.bookings[req[r].bid].status = "canceled"
               <=> \E l \in DOMAIN db.ledger :
                     /\ db.ledger[l].booking = req[r].bid
                     /\ db.ledger[l].method = "refund")

\* C9: a cancel request writes to a booking only while the booking is
\* pending or confirmed: the request is never past its status guard, about to
\* write, while the stored booking is canceled or completed.
CancelWritesOnlyActiveBooking ==
  \A r \in Reqs :
    (req[r].kind = "cancel" /\ req[r].pc = "update")
      => db.bookings[req[r].bid].status \in {"pending", "confirmed"}

\* C10, as the code has it: a cancel request by anyone but an administrator
\* that reaches the policy check goes on only if at least 24 hours remain
\* before check-in; with less it is rejected and the store is unchanged; an
\* administrator's request goes on whatever the time left.
CancelPolicyAtLeast24 ==
  [][\A r \in Reqs :
       (/\ req[r].pc = "idle"
        /\ req'[r].kind = "cancel"
        /\ req'[r].msg \notin {"booking", "denied", "already", "completed"})
         => /\ (req'[r].role # "admin"
                  /\ req'[r].mins < CancelWindowHours * MinutesPerHour)
                 => (req'[r].pc = "done" /\ req'[r].resp = 400
                       /\ req'[r].msg = "policy" /\ db' = db)
            /\ (req'[r].role # "admin"
                  /\ req'[r].mins >= CancelWindowHours * MinutesPerHour)
                 => req'[r].pc = "update"
            /\ req'[r].role = "admin" => req'[r].pc = "update"]_vars

\* A guest's cancel request has passed the policy check with exactly 24 hours
\* left before check-in.
CancelPolicyWitness ==
  \E r \in Reqs :
    /\ req[r].kind = "cancel" /\ req[r].pc = "update"
    /\ req[r].role = "guest"
    /\ req[r].mins = CancelWindowHours * MinutesPerHour

\* C10, as stated: a cancel request by anyone but an administrator goes on
\* only if more than 24 hours remain before check-in.
CancelPolicyMoreThan24 ==
  \A r \in Reqs :
    (req[r].kind = "cancel" /\ req[r].pc = "update" /\ req[r].role # "admin")
      => req[r].mins > CancelWindowHours * MinutesPerHour

\* C11: when a cancel request ends with success, a refund was attempted if
\* the booking was paid, the ledger holds a refund row of the booking if that
\* refund succeeded, and if the booking was not paid no refund was attempted
\* and the ledger holds no refund row of the booking.
RefundRecordedForPaidCancel ==
  \A r \in Reqs :
    (req[r].kind = "cancel" /\ req[r].pc = "done" /\ req[r].msg = "ok")
      => LET refundRows == {l \in DOMAIN db.ledger :
                              /\ db.ledger[l].booking = req[r].bid
                              /\ db.ledger[l].method = "refund"}
         IN /\ req[r].snapPay = "paid" => req[r].charge # "none"
            /\ (req[r].snapPay = "paid"
                  /\ req[r].charge \in {"completed", "pending"})
                 => refundRows # {}
            /\ req[r].snapPay # "paid"
                 => (req[r].charge = "none" /\ refundRows = {})

\* C12: when the refund attempt of a cancel request failed, the request is
\* answered with success and the booking is canceled with its cancellation
\* time stamped.
FailedRefundStillCancels ==
  \A r \in Reqs :
    (req[r].kind = "cancel" /\ req[r].pc = "done" /\ req[r].msg = "ok"
       /\ req[r].snapPay = "paid" /\ req[r].charge = "throw")
      => /\ req[r].resp = 200
         /\ db.bookings[req[r].bid].status = "canceled"
         /\ db.bookings[req[r].bid].canceledAt

\* C13: no step changes the booking_status of a booking that is completed.
CompletedIsTerminal ==
  [][\A b \in DOMAIN db.bookings :
       db.bookings[b].status = "completed"
         => db'.bookings[b].status = "completed"]_vars

\* C14: the booking_status of a canceled booking changes only in the write
\* of a manual status update.
CanceledLeftOnlyByManualUpdate ==
  [][\A b \in DOMAIN db.bookings :
       (db.bookings[b].status = "canceled"
          /\ db'.bookings[b].status # "canceled")
         => \E r \in Reqs : /\ req[r].kind = "status"
                             /\ req[r].pc = "update"
                             /\ req[r].bid = b
                             /\ req'[r].pc = "done"]_vars

\* C15: a webhook request whose signature does not verify is answered 400
\* and changes no booking row and no ledger row.
InvalidSignatureChangesNothing ==
  [][\A r \in Reqs :
       (req[r].pc = "idle" /\ req'[r].kind = "webhook"
          /\ req'[r].msg = "signature")
         => /\ req'[r].pc = "done" /\ req'[r].resp = 400
            /\ db' = db
            /\ orphans' = orphans]_vars

\* A webhook request naming a stored, canceled booking that a payment-success
\* event would move has been rejected for its signature.
InvalidSignatureWitness ==
  \E r \in Reqs :
    /\ req[r].kind = "webhook" /\ req[r].pc = "done"
    /\ req[r].msg = "signature"
    /\ Stored(req[r].bid)
    /\ req[r].bid \in intents
    /\ db.bookings[req[r].bid].status = "canceled"

\* C16: when a create or cancel request has sent its emails and answered with
\* success, its booking write is committed: the created booking is stored,
\* the canceled booking is stored with its cancellation time.
EmailsFollowCommittedWrite ==
  \A r \in Reqs :
    /\ (req[r].kind = "create" /\ req[r].pc = "done" /\ req[r].resp = 201)
         => Stored(req[r].bid)
    /\ (req[r].kind = "cancel" /\ req[r].pc = "done" /\ req[r].resp = 200)
         => db.bookings[req[r].bid].canceledAt

OnlyEnumValuesWritten ==
  /\ \A b \in DOMAIN db.bookings :
       /\ db.bookings[b].status \in BookingStatusEnum
       /\ db.bookings[b].pay \in PaymentStatusEnum
  /\ \A r \in Reqs :
       (req[r].kind = "create" /\ req[r].pc = "update")
         => req[r].charge \in PaymentStatusEnum

\* C19: the rate of a night before the multipliers is 1.5 x base price on a
\* holiday, whatever the day of the week; otherwise it is the weekend price
\* on Friday and Saturday if the listing has one (a price of NULL or 0 is
\* none) and the base price on every other night; and every holiday night of
\* the breakdown is tagged holiday.
HolidayRateOverridesWeekend ==
  \A r \in Reqs :
    req[r].kind = "pricing" =>
      /\ req[r].pc = "multipliers" =>
           LET d == req[r].ci + req[r].i
               suite == db.rules[req[r].suite]
               hasWeekendPrice == /\ suite.weekend_price # <<>>
                                  /\ suite.weekend_price[1] # 0
           IN 2 * req[r].nightlyRate =
                IF d \in HolidayDates
                  THEN 3 * suite.base_price * RateScale
                ELSE IF DayOfWeek(d) \in {5, 6} /\ hasWeekendPrice
                  THEN 2 * suite.weekend_price[1] * RateScale
                ELSE 2 * suite.base_price * RateScale
      /\ \A k \in DOMAIN req[r].nightlyBreakdown :
           req[r].nightlyBreakdown[k].date \in HolidayDates
             => req[r].nightlyBreakdown[k].type = "holiday"

\* The night of a Saturday holiday of a listing with a weekend price has been
\* given its rate, after a night that went into the breakdown.
SaturdayHolidayWitness ==
  \E r \in Reqs :
    /\ req[r].kind = "pricing" /\ req[r].pc = "multipliers"
    /\ req[r].ci + req[r].i \in HolidayDates
    /\ DayOfWeek(req[r].ci + req[r].i) = 6
    /\ db.rules[req[r].suite].weekend_price = <<240>>
    /\ 2 * req[r].nightlyRate = 3 * db.rules[req[r].suite].base_price * RateScale
    /\ req[r].nightlyBreakdown # <<>>

\* C20: the discount list of a priced stay holds no length-of-stay discount
\* below 7 nights, exactly the weekly one at 10% for 7 to 27 nights and
\* exactly the monthly one at 20% from 28 nights on; and it holds each other
\* discount exactly when that discount's own condition holds, at its own
\* rate and amount.
OneLengthOfStayDiscount ==
  \A r \in Reqs :
    (req[r].kind = "pricing" /\ req[r].pc = "done" /\ req[r].msg = "priced")
      => LET ds == req[r].discounts
             Of(type) == {k \in DOMAIN ds : ds[k].type = type}
             days == DaysUntilCheckIn(req[r].mins)
             n == req[r].nights
             age == req[r].propertyAge
             Holds(type, rate, cond) ==
               /\ Cardinality(Of(type)) = IF cond THEN 1 ELSE 0
               /\ \A k \in Of(type) : ds[k] = Discount(type, rate, req[r].subtotal)
         IN /\ Holds("weekly_stay", 10, n >= 7 /\ n <= 27)
            /\ Holds("monthly_stay", 20, n >= 28)
            /\ Holds("early_bird", EarlyBirdRate, days >= EarlyBirdDays)
            /\ Holds("last_minute", LastMinuteRate,
                     days >= 1 /\ days <= LastMinuteDays)
            /\ Holds("new_property", NewPropertyRate,
                     age # <<>> /\ age[1] <= NewPropertyDays)
            /\ \A k \in DOMAIN ds :
                 ds[k].type \in {"weekly_stay", "monthly_stay", "early_bird",
                                 "last_minute", "new_property"}

\* A stay of exactly 28 nights has been priced with the monthly discount
\* first, followed by the early-bird and the new-property discounts.
MonthlyStayWitness ==
  \E r \in Reqs :
    /\ req[r].kind = "pricing" /\ req[r].pc = "done" /\ req[r].msg = "priced"
    /\ req[r].nights = 28
    /\ Len(req[r].discounts) = 3
    /\ req[r].discounts[1].type = "monthly_stay"
    /\ req[r].discounts[2].type = "early_bird"
    /\ req[r].discounts[3].type = "new_property"

\* A pricing request that has returned its breakdown.
Priced(r) ==
  req[r].kind = "pricing" /\ req[r].pc = "done" /\ req[r].msg = "priced"

\* amount, in cents, is the cent nearest to rate percent of base, which is in
\* parts of a cent.
NearestCent(amount, base, rate) ==
  LET exact == base * rate
      given == amount * 100 * RateScale
  IN 2 * (given - exact) <= 100 * RateScale
       /\ 2 * (exact - given) <= 100 * RateScale

\* C21: in a returned breakdown the taxes are the tax rate applied to
\* subtotal - discounts + cleaning fee, the platform fee is its rate applied
\* to subtotal - discounts, the total is subtotal - discounts + cleaning fee
\* + taxes + platform fee + security deposit, and total_without_deposit is
\* the total minus the security deposit.
TotalIsSumOfComponents ==
  \A r \in Reqs :
    Priced(r) =>
      LET b == req[r].breakdown
          net == req[r].subtotal - DiscountAmount(req[r].discounts) * RateScale
      IN /\ b.discount_total = DiscountAmount(req[r].discounts)
         /\ NearestCent(b.taxes, net + b.cleaning_fee * RateScale, b.tax_rate)
         /\ NearestCent(b.platform_fee, net, PlatformFeeRate)
         /\ b.total = b.subtotal - b.discount_total + b.cleaning_fee
                        + b.taxes + b.platform_fee + b.security_deposit
         /\ b.total_without_deposit = b.total - b.security_deposit

\* A stay with a discount, a cleaning fee, a deposit and a subtotal that is
\* not a whole number of cents has been priced.
TotalWitness ==
  \E r \in Reqs :
    /\ Priced(r)
    /\ req[r].discounts # <<>>
    /\ req[r].subtotal % RateScale # 0
    /\ req[r].breakdown.cleaning_fee > 0
    /\ req[r].breakdown.security_deposit > 0
    /\ req[r].breakdown.taxes > 0

\* The rates of a discount list, summed, in percent.
RECURSIVE DiscountRates(_)
DiscountRates(discounts) ==
  IF discounts = <<>> THEN 0
  ELSE Head(discounts).rate + DiscountRates(Tail(discounts))

\* Early-bird and last-minute are not both in the list, and what is left of
\* the subtotal and total_without_deposit are not negative.
DiscountsLeaveTotalsNonNegative(r) ==
  /\ ~ \E j, k \in DOMAIN req[r].discounts :
         /\ req[r].discounts[j].type = "early_bird"
         /\ req[r].discounts[k].type = "last_minute"
  /\ req[r].subtotal - DiscountAmount(req[r].discounts) * RateScale >= 0
  /\ req[r].breakdown.total_without_deposit >= 0

\* C30: the discount rates of a priced stay sum to at most 45%, the summed
\* discount amount exceeds 45% of the subtotal by at most the half cent by
\* which each of up to three amounts is rounded, early-bird and last-minute
\* never both apply, and subtotal minus discounts and total_without_deposit
\* are not negative.
DiscountRatesAtMost45Percent ==
  \A r \in Reqs :
    Priced(r) =>
      /\ DiscountRates(req[r].discounts) <= 45
      /\ 20 * DiscountAmount(req[r].discounts) * RateScale
           <= 9 * req[r].subtotal + 30 * RateScale
      /\ DiscountsLeaveTotalsNonNegative(r)

\* A stay with the monthly, last-minute and new-property discounts has been
\* priced, and its discounts sum to more than 45% of the subtotal.
DiscountRoundingWitness ==
  \E r \in Reqs :
    /\ Priced(r)
    /\ Len(req[r].discounts) = 3
    /\ DiscountRates(req[r].discounts) = 45
    /\ 20 * DiscountAmount(req[r].discounts) * RateScale > 9 * req[r].subtotal

\* C30 as stated: the summed discount amount of a priced stay is at most 45%
\* of the subtotal.
DiscountAmountAtMost45Percent ==
  \A r \in Reqs :
    Priced(r) =>
      /\ 20 * DiscountAmount(req[r].discounts) * RateScale
           <= 9 * req[r].subtotal
      /\ DiscountsLeaveTotalsNonNegative(r)

\* C22: under any interleaving of review submissions, no two reviews are of
\* the same booking.
OneReviewPerBooking ==
  \A i, j \in DOMAIN db.reviews :
    db.reviews[i].booking = db.reviews[j].booking => i = j

\* C23: a review enters the table with a NULL approval flag, and a review
\* whose approval flag is set is neither changed nor removed by any step.
ReviewPendingThenFrozen ==
  [][/\ \A id \in DOMAIN db'.reviews \ DOMAIN db.reviews :
          db'.reviews[id].is_approved = <<>>
     /\ \A id \in DOMAIN db.reviews :
          db.reviews[id].is_approved # <<>>
            => /\ id \in DOMAIN db'.reviews
               /\ db'.reviews[id] = db.reviews[id]]_vars

\* C24: no step modifies or removes a row of the payment ledger.
LedgerAppendOnly ==
  [][\A l \in DOMAIN db.ledger :
       l \in DOMAIN db'.ledger /\ db'.ledger[l] = db.ledger[l]]_vars

\* C25: no booking has more than one refund row in the ledger, and no two
\* cancel requests have both obtained a refund of the same booking.
AtMostOneRefundPerBooking ==
  /\ \A k, l \in DOMAIN db.ledger :
       (/\ db.ledger[k].method = "refund" /\ db.ledger[l].method = "refund"
        /\ db.ledger[k].booking = db.ledger[l].booking) => k = l
  /\ \A r, q \in Reqs :
       (/\ req[r].kind = "cancel" /\ req[q].kind = "cancel"
        /\ req[r].bid = req[q].bid
        /\ req[r].charge \in {"completed", "pending"}
        /\ req[q].charge \in {"completed", "pending"}) => r = q

\* C26: no booking is confirmed with payment_status failed.
ConfirmedNeverFailed ==
  \A b \in DOMAIN db.bookings :
    db.bookings[b].status = "confirmed" => db.bookings[b].pay # "failed"

\* C27: a booking has a cancellation timestamp exactly if it is canceled.
CanceledAtIffCanceled ==
  \A b \in DOMAIN db.bookings :
    db.bookings[b].canceledAt <=> db.bookings[b].status = "canceled"

\* The rows of booking ref are as a handled payment_intent.succeeded event
\* leaves them.
Handled(store, ref) ==
  /\ store.bookings[ref].status = "confirmed"
  /\ store.bookings[ref].pay = "paid"
  /\ \A l \in DOMAIN store.ledger :
       store.ledger[l].gateway = ref => store.ledger[l].status = "completed"

\* C28: the first statement of the payment_intent.succeeded handler leaves
\* the booking confirmed and paid, the second leaves the ledger rows of the
\* intent completed and inserts none, and on rows that already are as the
\* handler leaves them neither statement changes any booking or ledger row.
SucceededWebhookIdempotent ==
  [][\A r \in Reqs :
       (req'[r].kind = "succeeded" /\ req'[r].pc # req[r].pc
          /\ req[r].pc \in {"idle", "ledger"})
         => LET ref == req'[r].bid
            IN /\ req[r].pc = "idle"
                    => /\ db'.bookings[ref].status = "confirmed"
                       /\ db'.bookings[ref].pay = "paid"
               /\ req[r].pc = "ledger"
                    => /\ DOMAIN db'.ledger = DOMAIN db.ledger
                       /\ \A l \in DOMAIN db'.ledger :
                            db'.ledger[l].gateway = ref
                              => db'.ledger[l].status = "completed"
               /\ Handled(db, ref) => db' = db]_vars

\* The event of the pending booking 2 is being handled a second time: the
\* ledger row of its intent is completed already when the handler reaches
\* its second statement.
SecondHandlingWitness ==
  \E r \in Reqs :
    /\ req[r].kind = "succeeded" /\ req[r].pc = "ledger" /\ req[r].bid = 2
    /\ Handled(db, 2)

\* C29: no inactive listing has a pending or confirmed booking whose
\* check-out date is in the future.
NoActiveBookingOnInactiveSuite ==
  \A s \in Suites :
    ~db.active[s] => ActiveBookings(db.bookings, s) = 0

====
